---------------------------- MODULE Spec2Model ----------------------------
(***************************************************************************)
(* A model of src/agent/src/skills/anthropic_executor.py: the dispatcher   *)
(* main(), the command runner execute_bash() and the text editor           *)
(* execute_text_editor().                                                  *)
(*                                                                         *)
(* One step of the model is one launch of the program (one skill call).    *)
(* The filesystem persists between launches; everything else is rebuilt.   *)
(* Text is a sequence of one-character strings, so that substring tests,   *)
(* prefix tests, newline translation and line splitting are computed as    *)
(* the Python runtime computes them.  An optional value (a missing JSON    *)
(* key, None) is a sequence of length 0 or 1.                              *)
(***************************************************************************)
EXTENDS Integers, Sequences, FiniteSets, TLC

VARIABLES
    fs,         \* resolved path -> <<>> (no such file) or <<bytes>>
    dirs,       \* the directories that exist
    skill,      \* --skill of the last launch
    params,     \* --params of the last launch, decoded
    result,     \* what the invoked operation did: returned a value or raised
    stdout,     \* the JSON documents the last launch printed
    exit_code,  \* the exit status of the last launch
    spawned,    \* the last launch called subprocess.run
    touched,    \* the paths the last launch read or wrote
    pre_fs,     \* fs when the last launch began
    pre_dirs,   \* dirs when the last launch began
    pc          \* "ready": no process runs; "exited": the launched one has exited

vars == <<fs, dirs, skill, params, result, stdout, exit_code, spawned,
          touched, pre_fs, pre_dirs, pc>>

---------------------------------------------------------------------------
(* Bounds of the model. *)

\* longest content given to create
MaxLen == 2
\* longest content given to insert and replace
MaxContent == 1
\* a call that would leave a file longer than this is not taken
MaxFile == 3
\* longest run of filler around a command's middle part
MaxPad == 1

---------------------------------------------------------------------------
(* Text. *)

LF == "\n"
CR == "\r"
FF == "\f"

None == <<>>
Some(x) == <<x>>

Seqs(S, n) == UNION {[1..k -> S] : k \in 0..n}

RECURSIVE Concat(_)
Concat(ss) == IF ss = <<>> THEN <<>> ELSE Head(ss) \o Concat(Tail(ss))

\* str.startswith
StartsWith(s, prefix) ==
    /\ Len(s) >= Len(prefix)
    /\ SubSeq(s, 1, Len(prefix)) = prefix

\* str.count of a one-character string
RECURSIVE Count(_, _)
Count(s, ch) ==
    IF s = <<>> THEN 0
    ELSE (IF Head(s) = ch THEN 1 ELSE 0) + Count(Tail(s), ch)

\* os.linesep of the platform the sandbox root /tmp belongs to
linesep == <<LF>>

\* Path.write_text: text mode with newline=None writes each "\n" as os.linesep
RECURSIVE write_text(_)
write_text(s) ==
    IF s = <<>> THEN <<>>
    ELSE (IF Head(s) = LF THEN linesep ELSE <<Head(s)>>) \o write_text(Tail(s))

\* Path.read_text: text mode with newline=None reads "\r\n" and "\r" as "\n"
RECURSIVE read_text(_)
read_text(b) ==
    IF b = <<>> THEN <<>>
    ELSE IF Head(b) = CR
         THEN IF Len(b) >= 2 /\ b[2] = LF
              THEN <<LF>> \o read_text(SubSeq(b, 3, Len(b)))
              ELSE <<LF>> \o read_text(Tail(b))
         ELSE <<Head(b)>> \o read_text(Tail(b))

\* The characters str.splitlines ends a line at; the form feed stands for
\* the ones besides the line feed and the carriage return.
LineBoundaries == {LF, CR, FF}

\* str.splitlines(keepends=True); "\r\n" ends one line
RECURSIVE SplitAcc(_, _)
SplitAcc(s, cur) ==
    IF s = <<>> THEN (IF cur = <<>> THEN <<>> ELSE <<cur>>)
    ELSE IF Head(s) = CR /\ Len(s) >= 2 /\ s[2] = LF
         THEN <<cur \o <<CR, LF>>>> \o SplitAcc(SubSeq(s, 3, Len(s)), <<>>)
         ELSE IF Head(s) \in LineBoundaries
              THEN <<cur \o <<Head(s)>>>> \o SplitAcc(Tail(s), <<>>)
              ELSE SplitAcc(Tail(s), cur \o <<Head(s)>>)

splitlines(s) == SplitAcc(s, <<>>)

\* list.insert(i, x): a negative index counts from the end, and the index is
\* clamped to 0..len
list_insert(l, i, x) ==
    LET n == Len(l)
        j == IF i < 0 THEN (IF i + n < 0 THEN 0 ELSE i + n)
             ELSE (IF i > n THEN n ELSE i)
    IN SubSeq(l, 1, j) \o <<x>> \o SubSeq(l, j + 1, n)

\* the 0-based position lines[i] names (a negative i counts from the end),
\* or -1 where Python raises IndexError
list_index(l, i) ==
    LET n == Len(l)
        j == IF i < 0 THEN i + n ELSE i
    IN IF j >= 0 /\ j < n THEN j ELSE -1

\* lines[i] = x
list_setitem(l, i, x) == [l EXCEPT ![list_index(l, i) + 1] = x]

\* del lines[i]
list_delitem(l, i) ==
    SubSeq(l, 1, list_index(l, i)) \o SubSeq(l, list_index(l, i) + 2, Len(l))

---------------------------------------------------------------------------
(* Paths. *)

SLASH == "/"

\* the components of a path string, split at "/"
RECURSIVE PartsAcc(_, _)
PartsAcc(s, cur) ==
    IF s = <<>> THEN <<cur>>
    ELSE IF Head(s) = SLASH THEN <<cur>> \o PartsAcc(Tail(s), <<>>)
         ELSE PartsAcc(Tail(s), cur \o <<Head(s)>>)

\* walking the components from the root: "" and "." stay, ".." goes up
RECURSIVE Walk(_, _)
Walk(parts, stack) ==
    IF parts = <<>> THEN stack
    ELSE LET p == Head(parts)
         IN IF p = <<>> \/ p = <<".">> THEN Walk(Tail(parts), stack)
            ELSE IF p = <<".", ".">>
                 THEN Walk(Tail(parts),
                           IF stack = <<>> THEN stack
                           ELSE SubSeq(stack, 1, Len(stack) - 1))
                 ELSE Walk(Tail(parts), Append(stack, p))

\* str() of a path given by its components
PathStr(stack) ==
    IF stack = <<>> THEN <<SLASH>>
    ELSE Concat([i \in 1..Len(stack) |-> <<SLASH>> \o stack[i]])

\* str(Path(path).resolve()) of an absolute path, on a filesystem without
\* symbolic links
resolve(path) == PathStr(Walk(PartsAcc(path, <<>>), <<>>))

\* the directories path_obj.parent.mkdir(parents=True) makes sure of
Parents(path_obj) ==
    LET stack == Walk(PartsAcc(path_obj, <<>>), <<>>)
    IN {PathStr(SubSeq(stack, 1, i)) : i \in 0..(Len(stack) - 1)}

\* the literal of the sandbox check, "/tmp"
SandboxRoot == <<"/", "t", "m", "p">>

\* the test of line 110: the resolved path passes the sandbox check
PassesSandboxCheck(path_obj) == StartsWith(path_obj, SandboxRoot)

---------------------------------------------------------------------------
(* What an operation does: the filesystem it leaves, and whether it        *)
(* returns a result object or raises.  A message is the text of str(e),    *)
(* kept as its fixed part and the value formatted into it.                 *)

Raise(cls, text, arg) ==
    [kind |-> "raise", cls |-> cls, msg |-> [text |-> text, arg |-> arg]]

Return(v) == [kind |-> "return", value |-> v]

NoResult == [kind |-> "none"]

Effect(f, d, t, sp, r) ==
    [fs |-> f, dirs |-> d, touched |-> t, spawned |-> sp, ret |-> r]

---------------------------------------------------------------------------
(* The text editor. *)

\* path_obj.exists()
exists(f, path_obj) == f[path_obj] # None

\* the bounds test with its lower bound off by one: `line_number < 0`
ValidLineFromZero(line_number, lines) ==
    ~(line_number < 0 \/ line_number > Len(lines))

\* the bounds test of replace and of delete: the negation of
\* `line_number < 1 or line_number > len(lines)`
ValidLine(line_number, lines) ==
    ~(line_number < 1 \/ line_number > Len(lines))

\* the 1-based line number handed to list.insert as it is
InsertIndexOneBased(line_number) == line_number

\* the index insert hands to list.insert
InsertIndex(line_number) == line_number - 1

execute_text_editor(p, f, d) ==
    LET command == p.command
        path == p.path
        content == IF p.content = None THEN <<>> ELSE p.content[1]
        line_number == p.line_number
    IN
    IF command = None \/ command = Some("") \/ path = None \/ path = Some(<<>>)
    THEN Effect(f, d, {}, FALSE,
                Raise("ValueError", "command and path are required", None))
    ELSE
    LET cmd == command[1]
        path_obj == resolve(path[1])
        n == line_number[1]
        Fail(t, r) == Effect(f, d, t, FALSE, r)
        NotFound ==
            Fail({path_obj}, Raise("FileNotFoundError", "File not found", path[1]))
        Required ==
            Fail({}, Raise("ValueError", "line_number is required for", cmd))
        InvalidLine ==
            Fail({path_obj}, Raise("ValueError", "Invalid line number", n))
        IndexError ==
            Fail({path_obj}, Raise("IndexError", "list index out of range", None))
        lines == splitlines(read_text(f[path_obj][1]))
        Rewrite(new_lines, status) ==
            Effect([f EXCEPT ![path_obj] = Some(write_text(Concat(new_lines)))],
                   d, {path_obj}, FALSE,
                   Return([status |-> status, path |-> path_obj,
                           lines_affected |-> 1]))
    IN
    IF ~PassesSandboxCheck(path_obj)
    THEN Fail({}, Raise("ValueError",
                        "File operations restricted to /tmp directory", None))
    ELSE
    CASE cmd = "create" ->
           Effect([f EXCEPT ![path_obj] = Some(write_text(content))],
                  d \cup Parents(path_obj), {path_obj}, FALSE,
                  Return([status |-> "created", path |-> path_obj,
                          lines_affected |-> Count(content, LF) + 1]))
      [] cmd = "view" ->
           IF ~exists(f, path_obj) THEN NotFound
           ELSE LET text == read_text(f[path_obj][1])
                IN Effect(f, d, {path_obj}, FALSE,
                          Return([status |-> "viewed", path |-> path_obj,
                                  content |-> text,
                                  lines_affected |-> Count(text, LF) + 1]))
      [] cmd = "insert" ->
           IF line_number = None THEN Required
           ELSE IF ~exists(f, path_obj) THEN NotFound
           ELSE Rewrite(list_insert(lines, InsertIndex(n), content \o <<LF>>),
                        "inserted")
      [] cmd = "replace" ->
           IF line_number = None THEN Required
           ELSE IF ~exists(f, path_obj) THEN NotFound
           ELSE IF ~ValidLine(n, lines) THEN InvalidLine
           ELSE IF list_index(lines, n - 1) = -1 THEN IndexError
           ELSE Rewrite(list_setitem(lines, n - 1, content \o <<LF>>),
                        "replaced")
      [] cmd = "delete" ->
           IF line_number = None
           THEN IF ~exists(f, path_obj)
                THEN Fail({path_obj},
                          Raise("FileNotFoundError",
                                "[Errno 2] No such file or directory", path_obj))
                ELSE Effect([f EXCEPT ![path_obj] = None], d, {path_obj}, FALSE,
                            Return([status |-> "deleted", path |-> path_obj,
                                    lines_affected |-> 0]))
           ELSE IF ~exists(f, path_obj) THEN NotFound
           ELSE IF ~ValidLine(n, lines) THEN InvalidLine
           ELSE IF list_index(lines, n - 1) = -1 THEN IndexError
           ELSE Rewrite(list_delitem(lines, n - 1), "deleted_line")
      [] OTHER ->
           Fail({}, Raise("ValueError", "Unknown command", cmd))

---------------------------------------------------------------------------
(* The command runner. *)

DefaultTimeout == 30

dangerous_patterns ==
    << <<"r", "m", " ", "-", "r", "f", " ", "/">>,
       <<"m", "k", "f", "s">>,
       <<"d", "d", " ", "i", "f", "=", "/", "d", "e", "v">>,
       <<":", "(", ")", "{", ":", "|", ":", "&", "}", ";", ":">>,
       <<"c", "h", "m", "o", "d", " ", "7", "7", "7">>,
       <<"c", "h", "m", "o", "d", " ", "-", "R", " ", "7", "7", "7">> >>

\* the pattern looked for at the start of the command only
PatternAtStart(pattern, command) == StartsWith(command, pattern)

\* `pattern in command`: the pattern is a substring of the command
PatternIn(pattern, command) ==
    \E i \in 1..(Len(command) - Len(pattern) + 1) :
        SubSeq(command, i, i + Len(pattern) - 1) = pattern

\* env is what the shell and the child process do once subprocess.run is
\* called: the child completes with a return code, outlives the timeout, or
\* cannot be started (a missing workdir, no shell)
execute_bash(p, f, d, env) ==
    LET command == IF p.command = None THEN <<>> ELSE p.command[1]
        timeout == IF p.timeout = None THEN DefaultTimeout ELSE p.timeout[1]
        matched == {i \in 1..Len(dangerous_patterns) :
                        PatternIn(dangerous_patterns[i], command)}
        first == CHOOSE i \in matched : \A j \in matched : i <= j
    IN
    IF command = <<>>
    THEN Effect(f, d, {}, FALSE, Raise("ValueError", "Command is required", None))
    ELSE IF matched # {}
    THEN Effect(f, d, {}, FALSE,
                Raise("ValueError", "Dangerous command blocked",
                      dangerous_patterns[first]))
    ELSE
    CASE env.kind = "completed" ->
           Effect(f, d, {}, TRUE,
                  Return([stdout |-> env.stdout, stderr |-> env.stderr,
                          exit_code |-> env.returncode, command |-> command]))
      [] env.kind = "TimeoutExpired" ->
           Effect(f, d, {}, TRUE,
                  Raise("TimeoutError", "Command timeout after seconds", timeout))
      [] OTHER ->
           Effect(f, d, {}, TRUE,
                  Raise("RuntimeError", "Command execution failed", None))

---------------------------------------------------------------------------
(* The dispatcher. *)

\* the classes `except Exception` catches; SystemExit, which sys.exit
\* raises, derives from BaseException alone
ExceptionClasses ==
    {"ValueError", "FileNotFoundError", "TimeoutError", "RuntimeError",
     "AttributeError", "IndexError"}

\* `except Exception as e` catches an exception of this class
ExceptionCaught(cls) == cls \in ExceptionClasses

ErrorDoc(msg) == [error |-> msg]

\* pr is the --params string as json.loads takes it:
\*   "invalid"   no JSON text: json.loads raises JSONDecodeError;
\*   "overflow"  JSON text json.loads gives up on with an error that is no
\*               JSONDecodeError: ValueError for an integer of more digits
\*               than the interpreter converts, RecursionError for arrays
\*               nested deeper than its stack;
\*   "array"     JSON text that is no object;
\*   "object"    an object, with its keys.
\* An exception no handler catches ends the process with exit status 1 and a
\* traceback on standard error.
main(sk, pr, f, d, env) ==
    IF pr.kind = "invalid"
    THEN [fs |-> f, dirs |-> d, touched |-> {}, spawned |-> FALSE,
          result |-> NoResult,
          stdout |-> <<ErrorDoc([text |-> "Invalid JSON parameters",
                                 arg |-> None])>>,
          exit_code |-> 1]
    ELSE IF pr.kind = "overflow"
    THEN [fs |-> f, dirs |-> d, touched |-> {}, spawned |-> FALSE,
          result |-> NoResult, stdout |-> <<>>, exit_code |-> 1]
    ELSE
    LET NoGet == Effect(f, d, {}, FALSE,
                        Raise("AttributeError",
                              "'list' object has no attribute 'get'", None))
        op == CASE sk = "bash" ->
                     IF pr.kind = "object" THEN execute_bash(pr, f, d, env)
                     ELSE NoGet
                [] sk = "text_editor" ->
                     IF pr.kind = "object" THEN execute_text_editor(pr, f, d)
                     ELSE NoGet
                [] OTHER ->
                     Effect(f, d, {}, FALSE,
                            [kind |-> "unknown_skill",
                             value |-> ErrorDoc([text |-> "Unknown skill",
                                                 arg |-> sk])])
        \* the try block: what it prints, and the exception that leaves it
        \* (sys.exit raises SystemExit)
        try == IF op.ret.kind = "unknown_skill"
               THEN [printed |-> <<>>, cls |-> "SystemExit", code |-> 1,
                     msg |-> [text |-> "1", arg |-> None]]
               ELSE IF op.ret.kind = "raise"
               THEN [printed |-> <<>>, cls |-> op.ret.cls, code |-> 1,
                     msg |-> op.ret.msg]
               ELSE [printed |-> <<op.ret.value>>, cls |-> "SystemExit",
                     code |-> 0, msg |-> [text |-> "0", arg |-> None]]
    IN [fs |-> op.fs, dirs |-> op.dirs, touched |-> op.touched,
        spawned |-> op.spawned, result |-> op.ret,
        stdout |-> IF ExceptionCaught(try.cls)
                   THEN try.printed \o <<ErrorDoc(try.msg)>>
                   ELSE try.printed,
        exit_code |-> IF ExceptionCaught(try.cls) THEN 1 ELSE try.code]

---------------------------------------------------------------------------
(* The inputs the launches are drawn from. *)

\* "/tmp/d/a": inside the sandbox
InsidePath == <<"/", "t", "m", "p", "/", "d", "/", "a">>
\* "/tmpfoo/x": beside the sandbox, sharing its textual prefix
SiblingPath == <<"/", "t", "m", "p", "f", "o", "o", "/", "x">>
\* "/etc/passwd": outside the sandbox
OutsidePath == <<"/", "e", "t", "c", "/", "p", "a", "s", "s", "w", "d">>
\* "/tmp/../etc/passwd": outside the sandbox once resolved
EscapingPath == <<"/", "t", "m", "p", "/", ".", ".", "/", "e", "t", "c", "/",
                  "p", "a", "s", "s", "w", "d">>

Paths == {InsidePath, SiblingPath, OutsidePath, EscapingPath}

FileNames == {resolve(p) : p \in Paths}

Chars == {"a", LF, CR, FF}

\* The path inside the sandbox is given every content; the other paths,
\* which only probe the sandbox check, are given one.
Contents(path, n) == IF path = InsidePath THEN Seqs(Chars, n) ELSE {<<"a">>}

LineNumbers(path) == IF path = InsidePath THEN -1..(MaxFile + 1) ELSE {1}

EditParams(cmd, path, content, line_number) ==
    [kind |-> "object", command |-> cmd, path |-> path, content |-> content,
     line_number |-> line_number]

\* a command is a middle part with filler before and after it
PadChars == {" ", "m"}

Middles ==
    { dangerous_patterns[i] : i \in 1..Len(dangerous_patterns) } \cup
    { <<"l", "s">>,
      <<"k", "f", "s">>,
      <<"r", "m", " ", "-", "r", "f">>,
      <<"r", "m", " ", "-", "f", "r", " ", "/">>,
      <<"c", "h", "m", "o", "d", " ", "7", "5", "5">>,
      <<"d", "d", " ", "i", "f", "=", "x">> }

Commands ==
    { pre \o mid \o post :
        pre \in Seqs(PadChars, MaxPad), mid \in Middles,
        post \in Seqs(PadChars, MaxPad) }

BashParams(command, timeout) ==
    [kind |-> "object", command |-> command, timeout |-> timeout]

ChildOutcomes ==
    { [kind |-> "completed", returncode |-> 0, stdout |-> "hi", stderr |-> ""],
      [kind |-> "completed", returncode |-> 7, stdout |-> "", stderr |-> "no"],
      [kind |-> "TimeoutExpired", returncode |-> 0, stdout |-> "", stderr |-> ""],
      [kind |-> "OSError", returncode |-> 0, stdout |-> "", stderr |-> ""] }

NoChild == [kind |-> "none", returncode |-> 0, stdout |-> "", stderr |-> ""]

---------------------------------------------------------------------------
(* The state machine. *)

Init ==
    /\ fs = [name \in FileNames |->
                IF name = resolve(OutsidePath) THEN Some(<<"a", LF>>) ELSE None]
    /\ dirs = {<<SLASH>>, SandboxRoot, <<"/", "e", "t", "c">>}
    /\ skill = ""
    /\ params = [kind |-> "none"]
    /\ result = NoResult
    /\ stdout = <<>>
    /\ exit_code = 0
    /\ spawned = FALSE
    /\ touched = {}
    /\ pre_fs = fs
    /\ pre_dirs = dirs
    /\ pc = "ready"

\* one launch of the program: python anthropic_executor.py --skill sk --params pr
\* (r is bound by \E so that main is evaluated once per launch)
Launch(sk, pr, env) ==
    \E r \in {main(sk, pr, fs, dirs, env)} :
       /\ \A name \in DOMAIN r.fs :
            IF r.fs[name] = None THEN TRUE ELSE Len(r.fs[name][1]) <= MaxFile
       /\ fs' = r.fs
       /\ dirs' = r.dirs
       /\ skill' = sk
       /\ params' = pr
       /\ result' = r.result
       /\ stdout' = r.stdout
       /\ exit_code' = r.exit_code
       /\ spawned' = r.spawned
       /\ touched' = r.touched
       /\ pre_fs' = fs
       /\ pre_dirs' = dirs
       /\ pc' = "exited"

\* The process has exited and the program is launched anew: nothing but the
\* filesystem outlives a launch.
NewProcess ==
    /\ pc = "exited"
    /\ pc' = "ready"
    /\ skill' = ""
    /\ params' = [kind |-> "none"]
    /\ result' = NoResult
    /\ stdout' = <<>>
    /\ exit_code' = 0
    /\ spawned' = FALSE
    /\ touched' = {}
    /\ pre_fs' = fs
    /\ pre_dirs' = dirs
    /\ UNCHANGED <<fs, dirs>>

(* The text editor's launches. *)

Create ==
    \E path \in Paths : \E content \in Contents(path, MaxLen) :
        /\ pc = "ready"
        /\ Launch("text_editor",
                  EditParams(Some("create"), Some(path), Some(content), None),
                  NoChild)

View ==
    \E path \in Paths :
        /\ pc = "ready"
        /\ Launch("text_editor", EditParams(Some("view"), Some(path), None, None),
                  NoChild)

Insert ==
    \E path \in Paths : \E content \in Contents(path, MaxContent) :
        \E n \in LineNumbers(path) :
            /\ pc = "ready"
            /\ Launch("text_editor",
                      EditParams(Some("insert"), Some(path), Some(content), Some(n)),
                      NoChild)

Replace ==
    \E path \in Paths : \E content \in Contents(path, MaxContent) :
        \E n \in LineNumbers(path) :
            /\ pc = "ready"
            /\ Launch("text_editor",
                      EditParams(Some("replace"), Some(path), Some(content), Some(n)),
                      NoChild)

DeleteLine ==
    \E path \in Paths : \E n \in LineNumbers(path) :
        /\ pc = "ready"
        /\ Launch("text_editor",
                  EditParams(Some("delete"), Some(path), None, Some(n)), NoChild)

DeleteFile ==
    \E path \in Paths :
        /\ pc = "ready"
        /\ Launch("text_editor", EditParams(Some("delete"), Some(path), None, None),
                  NoChild)

\* a request that lacks a required key or names no editor command
Malformed ==
    \E p \in { EditParams(None, Some(InsidePath), None, None),
               EditParams(Some("view"), None, None, None),
               EditParams(Some("rename"), Some(InsidePath), None, None),
               EditParams(Some("insert"), Some(InsidePath), Some(<<"a">>), None),
               EditParams(Some("replace"), Some(InsidePath), Some(<<"a">>), None) } :
        /\ pc = "ready"
        /\ Launch("text_editor", p, NoChild)

NextEditor ==
    \/ Create
    \/ View
    \/ Insert
    \/ Replace
    \/ DeleteLine
    \/ DeleteFile
    \/ Malformed
    \/ NewProcess

SpecEditor == Init /\ [][NextEditor]_vars

(* The command runner's launches. *)

RunCommand ==
    \E command \in Commands : \E timeout \in {None, Some(5)} :
        \E env \in ChildOutcomes :
            /\ pc = "ready"
            /\ Launch("bash", BashParams(Some(command), timeout), env)

NoCommand ==
    \E command \in {None, Some(<<>>)} : \E env \in ChildOutcomes :
        /\ pc = "ready"
        /\ Launch("bash", BashParams(command, None), env)

NextBash ==
    \/ RunCommand
    \/ NoCommand
    \/ NewProcess

SpecBash == Init /\ [][NextBash]_vars

(* The dispatcher's launches, over a few requests of each kind. *)

SomeEditParams ==
    { EditParams(Some(cmd), Some(path), content, n) :
        cmd \in {"create", "view", "insert", "replace", "delete", "rename"},
        path \in {InsidePath, OutsidePath},
        content \in {None, Some(<<"a", LF, "a">>)},
        n \in {None, Some(1), Some(3)} }

SomeCommands ==
    { <<"l", "s">>, <<>>, <<" ">> \o dangerous_patterns[2] }

EditorSkill ==
    \E p \in SomeEditParams :
        /\ pc = "ready"
        /\ Launch("text_editor", p, NoChild)

BashSkill ==
    \E command \in SomeCommands : \E env \in ChildOutcomes :
        /\ pc = "ready"
        /\ Launch("bash", BashParams(Some(command), None), env)

UnknownSkill ==
    \E sk \in {"python", "Bash", ""} :
        \E p \in SomeEditParams \cup {BashParams(Some(<<"l", "s">>), None)} :
            /\ pc = "ready"
            /\ Launch(sk, p, NoChild)

InvalidJson ==
    \E sk \in {"bash", "text_editor", "python"} :
        /\ pc = "ready"
        /\ Launch(sk, [kind |-> "invalid"], NoChild)

NotAnObject ==
    \E sk \in {"bash", "text_editor", "python"} : \E env \in ChildOutcomes :
        /\ pc = "ready"
        /\ Launch(sk, [kind |-> "array"], env)

\* JSON text json.loads raises on without a JSONDecodeError
JsonOverflow ==
    \E sk \in {"bash", "text_editor", "python"} :
        /\ pc = "ready"
        /\ Launch(sk, [kind |-> "overflow"], NoChild)

Next ==
    \/ EditorSkill
    \/ BashSkill
    \/ UnknownSkill
    \/ InvalidJson
    \/ NotAnObject
    \/ JsonOverflow
    \/ NewProcess

Spec == Init /\ [][Next]_vars

---------------------------------------------------------------------------
(* The claims. *)

EditorCommands == {"create", "view", "insert", "replace", "delete"}

\* the path lies within the directory /tmp
InSandbox(path_obj) ==
    path_obj = SandboxRoot \/ StartsWith(path_obj, SandboxRoot \o <<SLASH>>)

\* the last launch called the editor with this command and a path
EditorCall(cmd) ==
    /\ pc = "exited"
    /\ skill = "text_editor"
    /\ params.kind = "object"
    /\ params.command = Some(cmd)
    /\ params.path # None

\* the file the last editor call names, before and after the call
Target == resolve(params.path[1])
Before == pre_fs[Target]
After == fs[Target]

GivenContent == IF params.content = None THEN <<>> ELSE params.content[1]

\* s has no character that ends a line
OneLine(s) == \A i \in 1..Len(s) : s[i] \notin LineBoundaries

\* every line terminator of s is "\n"
OnlyLF(s) == \A i \in 1..Len(s) : s[i] \in LineBoundaries => s[i] = LF

\* p occurs in s at some position
Occurs(p, s) ==
    \E i \in 0..(Len(s) - Len(p)) : \A k \in 1..Len(p) : s[i + k] = p[k]

\* the denylist as the specification lists it
DenyList ==
    { <<"r", "m", " ", "-", "r", "f", " ", "/">>,
      <<"m", "k", "f", "s">>,
      <<"d", "d", " ", "i", "f", "=", "/", "d", "e", "v">>,
      <<":", "(", ")", "{", ":", "|", ":", "&", "}", ";", ":">>,
      <<"c", "h", "m", "o", "d", " ", "7", "7", "7">>,
      <<"c", "h", "m", "o", "d", " ", "-", "R", " ", "7", "7", "7">> }

\* C1: every editor sub-operation on a path that resolves outside /tmp
\* (a sibling such as /tmpfoo/x included) fails with the restricted-path
\* error, and creates, writes, removes and reads nothing.
C1_OutsideSandboxRejected ==
    ( /\ pc = "exited"
      /\ skill = "text_editor"
      /\ params.kind = "object"
      /\ params.command # None
      /\ params.path # None
      /\ params.command[1] \in EditorCommands
      /\ ~InSandbox(Target) )
    => /\ result.kind = "raise"
       /\ result.msg.text = "File operations restricted to /tmp directory"
       /\ fs = pre_fs
       /\ dirs = pre_dirs
       /\ \A t \in touched : InSandbox(t)

\* C2: a skill name that is neither "bash" nor "text_editor", with valid JSON
\* parameters, prints the one document {"error": "Unknown skill: <name>"}
\* and exits with code 1.
C2_UnknownSkillReported ==
    ( /\ pc = "exited"
      /\ skill \notin {"bash", "text_editor"}
      /\ params.kind \in {"array", "object"} )
    => /\ exit_code = 1
       /\ Len(stdout) = 1
       /\ stdout[1] = ErrorDoc([text |-> "Unknown skill", arg |-> skill])

\* C3: for the skills bash and text_editor and any parameter string, exactly
\* one document is printed; it is the error document, with exit code 1, when
\* the string is not valid JSON or the operation raises, and the operation's
\* result object, with exit code 0, when the operation returns.
C3_OneDocumentPerLaunch ==
    ( /\ pc = "exited"
      /\ skill \in {"bash", "text_editor"} )
    => /\ Len(stdout) = 1
       /\ params.kind = "invalid" =>
            /\ DOMAIN stdout[1] = {"error"}
            /\ exit_code = 1
       /\ (params.kind # "invalid" /\ result.kind = "raise") =>
            /\ DOMAIN stdout[1] = {"error"}
            /\ stdout[1].error.text = result.msg.text
            /\ exit_code = 1
       /\ (params.kind # "invalid" /\ result.kind = "return") =>
            /\ stdout[1] = result.value
            /\ exit_code = 0

\* C4: a command that holds a denylist pattern at any position fails with the
\* blocked-command error naming a pattern that occurs in it, and an empty or
\* missing command fails with the validation error; neither spawns a process.
C4_DenylistBlocks ==
    ( /\ pc = "exited"
      /\ skill = "bash"
      /\ params.kind = "object" )
    => LET cmd == IF params.command = None THEN <<>> ELSE params.command[1]
       IN /\ cmd = <<>> =>
               /\ result.kind = "raise"
               /\ result.cls = "ValueError"
               /\ result.msg.text = "Command is required"
               /\ ~spawned
          /\ (\E p \in DenyList : Occurs(p, cmd)) =>
               /\ result.kind = "raise"
               /\ result.cls = "ValueError"
               /\ result.msg.text = "Dangerous command blocked"
               /\ result.msg.arg \in DenyList
               /\ Occurs(result.msg.arg, cmd)
               /\ ~spawned

\* a blocked command whose pattern does not stand at its start
C4_Witness ==
    /\ pc = "exited"
    /\ skill = "bash"
    /\ params.command # None
    /\ \E p \in DenyList :
          /\ Occurs(p, params.command[1])
          /\ ~StartsWith(params.command[1], p)
    /\ result.kind = "raise"
    /\ result.msg.text = "Dangerous command blocked"
    /\ ~spawned

\* what a view of the same path returns in the state the last call left
ViewAfter ==
    execute_text_editor(EditParams(Some("view"), params.path, None, None),
                        fs, dirs).ret

\* C5: create followed by view of the same path inside the sandbox returns
\* exactly the content written, and the same lines_affected.
C5_CreateViewRoundTrip ==
    ( /\ EditorCall("create")
      /\ result.kind = "return"
      /\ InSandbox(Target) )
    => /\ ViewAfter.kind = "return"
       /\ ViewAfter.value.content = GivenContent
       /\ ViewAfter.value.lines_affected = result.value.lines_affected

\* C6: a successful replace at line n of a file of k lines, 1 <= n <= k,
\* leaves the file as its lines before n, then content and a newline, then
\* its lines after n, each line with the bytes it had.
C6_ReplaceChangesOnlyLineN ==
    ( /\ EditorCall("replace")
      /\ result.kind = "return"
      /\ InSandbox(Target) )
    => LET old == splitlines(Before[1])
           n == params.line_number[1]
       IN /\ n \in 1..Len(old)
          /\ After = Some(Concat(SubSeq(old, 1, n - 1))
                          \o GivenContent \o <<LF>>
                          \o Concat(SubSeq(old, n + 1, Len(old))))

\* the last call was replace or delete with a line number, on an existing
\* file inside the sandbox, and the line number is not one of 1..k
OutOfRangeCall ==
    /\ EditorCall("replace") \/ EditorCall("delete")
    /\ params.line_number # None
    /\ InSandbox(Target)
    /\ Before # None
    /\ params.line_number[1] \notin 1..Len(splitlines(Before[1]))

\* C7: replace and delete with a line number that is 0, negative or greater
\* than the file's line count fail with the validation error naming that
\* line number, and leave the file as it was.
C7_OutOfRangeLineRejected ==
    OutOfRangeCall
    => /\ result.kind = "raise"
       /\ result.cls = "ValueError"
       /\ result.msg.text = "Invalid line number"
       /\ result.msg.arg = params.line_number[1]
       /\ exit_code = 1
       /\ fs = pre_fs

\* line number 0 on a file that has lines
C7_Witness ==
    /\ OutOfRangeCall
    /\ params.line_number[1] = 0
    /\ Len(splitlines(Before[1])) >= 1
    /\ result.kind = "raise"
    /\ fs = pre_fs

\* C8: insert at line n of an existing file of k lines, 1 <= n <= k, leaves
\* the file as its lines before n, then content and a newline, then its
\* lines from n on, each line with the bytes it had.
C8_InsertShiftsLinesDown ==
    ( /\ EditorCall("insert")
      /\ params.line_number # None
      /\ InSandbox(Target)
      /\ Before # None
      /\ params.line_number[1] \in 1..Len(splitlines(Before[1])) )
    => LET old == splitlines(Before[1])
           n == params.line_number[1]
       IN /\ result.kind = "return"
          /\ After = Some(Concat(SubSeq(old, 1, n - 1))
                          \o GivenContent \o <<LF>>
                          \o Concat(SubSeq(old, n, Len(old))))

\* C9: insert with a line number greater than the line count k appends: the
\* k lines stay as they were and the file gains one last line, content and
\* a newline, whether or not the last line ended with a newline.  (Stated
\* for files whose terminators are all "\n" and content of one line.)
C9_InsertPastEndAppends ==
    ( /\ EditorCall("insert")
      /\ params.line_number # None
      /\ InSandbox(Target)
      /\ Before # None
      /\ OnlyLF(Before[1])
      /\ OneLine(GivenContent)
      /\ params.line_number[1] > Len(splitlines(Before[1])) )
    => LET old == splitlines(Before[1])
           new == splitlines(After[1])
       IN /\ result.kind = "return"
          /\ Len(new) = Len(old) + 1
          /\ SubSeq(new, 1, Len(old)) = old
          /\ new[Len(new)] = GivenContent \o <<LF>>

\* the last call was an insert the claim C10 covers
InsertInRange ==
    /\ EditorCall("insert")
    /\ params.line_number # None
    /\ InSandbox(Target)
    /\ Before # None
    /\ OnlyLF(Before[1])
    /\ OneLine(GivenContent)
    /\ params.line_number[1] \in 1..Len(splitlines(Before[1]))

\* what delete with the same line number does in the state the insert left
DeleteAfter ==
    execute_text_editor(EditParams(Some("delete"), params.path, None,
                                   params.line_number),
                        fs, dirs)

\* C10: on a file of k >= 1 lines terminated by "\n" only, insert of a
\* one-line content at n, 1 <= n <= k, followed by delete of line n, both
\* succeed and leave the file as it was before the insert.
C10_InsertThenDeleteRestores ==
    InsertInRange
    => /\ result.kind = "return"
       /\ DeleteAfter.ret.kind = "return"
       /\ DeleteAfter.ret.value.status = "deleted_line"
       /\ DeleteAfter.fs[Target] = Before

\* an insert before the last line of a file that does not end in a newline
C10_Witness ==
    /\ InsertInRange
    /\ params.line_number[1] = Len(splitlines(Before[1]))
    /\ Before[1][Len(Before[1])] # LF
    /\ result.kind = "return"
    /\ DeleteAfter.fs[Target] = Before

===========================================================================
